---- MODULE Spec2Model ----
(***************************************************************************)
(* The GeneticAlgorithm controller of src/src/terrarium.ts: the model it   *)
(* owns, the default reproduction strategy, and the step loop that is      *)
(* re-queued through requestAnimationFrame.                                *)
(*                                                                         *)
(* An organism is its genes, a short array of small integers, and whether  *)
(* it is an instance of the collaborator's organism class or a plain       *)
(* object (what structuredClone makes of an instance).  The user callbacks *)
(* are modelled by their outcomes: what shouldTerminate and                *)
(* shouldProgressGeneration answer on a tick, which parent each gene of an *)
(* offspring comes from, which genes a mutate call changes, and whether a  *)
(* callback calls pause() on the engine or throws.                         *)
(***************************************************************************)
EXTENDS Integers, Sequences, FiniteSets, TLC

\* ---- bounds of the model ------------------------------------------------
MaxPop == 3
MaxGene == 2
MaxGen == 2
MaxPlays == 2
GeneCount == 2

GeneValues == 0..MaxGene
Genes == [1..GeneCount -> GeneValues]
Organism == [genes : Genes, isInstance : BOOLEAN]
PopSizes == 2..MaxPop

\* The four callbacks step() invokes, in the order it invokes them.
Stages == {"terminate", "progress", "produce", "step"}

\* ---- collaborator callbacks ----------------------------------------------

\* getValue(): value = 0; for (i...) value += this.genes[i].value
RECURSIVE getValueLoop(_, _, _)
getValueLoop(genes, i, value) ==
  IF i < Len(genes) THEN getValueLoop(genes, i + 1, value + genes[i + 1])
  ELSE value

getValue(organism) == getValueLoop(organism.genes, 0, 0)

\* calculateFitness.  fit = "getValue": return organism.getValue(), a method
\* of the organism class, which a plain object does not have (TypeError).
\* fit = "genes": a number computed from the organism's genes alone, here
\* their sum.  The outcome is the number returned, or threw.
calculateFitness(organism, fit) ==
  IF fit = "getValue" /\ ~organism.isInstance
  THEN [threw |-> TRUE, value |-> 0]
  ELSE [threw |-> FALSE, value |-> getValue(organism)]

\* structuredClone of one organism: its data, without its class.
structuredCloneOrganism(organism) ==
  [genes |-> organism.genes, isInstance |-> FALSE]

\* crossover.  pick.how = "clone": return structuredClone(parentA).
\* pick.how = "mix": a new organism of the class, each gene taken from
\* parentA or from parentB as pick.from says (Math.random() > 0.5).
crossover(parentA, parentB, pick) ==
  IF pick.how = "clone" THEN structuredCloneOrganism(parentA)
  ELSE [genes |-> [g \in 1..GeneCount |->
                     IF pick.from[g] = "A" THEN parentA.genes[g]
                     ELSE parentB.genes[g]],
        isInstance |-> TRUE]

\* mutate: gene g is changed when d[g] = 1 and left alone when d[g] = 0; the
\* organism returned is the one given.
mutate(organism, d) ==
  [organism EXCEPT
     !.genes = [g \in 1..GeneCount |-> (organism.genes[g] + d[g]) % (MaxGene + 1)]]

\* ---- the default reproduction strategy -----------------------------------

\* structuredClone(model): a deep copy, field by field, organism by organism;
\* the copies are plain objects.
structuredClone(m) ==
  [populationSize |-> m.populationSize,
   generation     |-> m.generation,
   population     |-> [i \in 1..Len(m.population) |->
                         structuredCloneOrganism(m.population[i])]]

\* One insertion of Array.prototype.sort's comparator order
\* calculateFitness(b) - calculateFitness(a): descending fitness, and an
\* organism stays behind those of equal fitness that preceded it (stable).
RECURSIVE insertDesc(_, _, _)
insertDesc(sorted, o, fit) ==
  IF sorted = <<>> THEN <<o>>
  ELSE IF calculateFitness(o, fit).value
            - calculateFitness(Head(sorted), fit).value > 0
       THEN <<o>> \o sorted
       ELSE <<Head(sorted)>> \o insertDesc(Tail(sorted), o, fit)

RECURSIVE sortDesc(_, _, _)
sortDesc(sorted, rest, fit) ==
  IF rest = <<>> THEN sorted
  ELSE sortDesc(insertDesc(sorted, Head(rest), fit), Tail(rest), fit)

\* population.sort((a, b) => calculateFitness(b) - calculateFitness(a)),
\* when no comparison throws.
sortedByFitness(population, fit) == sortDesc(<<>>, population, fit)

\* The sort throws: the comparator is called as soon as there are two
\* organisms, every organism is compared at least once, and a comparison
\* throws when calculateFitness throws on one of its two organisms.
sortThrows(population, fit) ==
  /\ Len(population) > 1
  /\ \E i \in 1..Len(population) : calculateFitness(population[i], fit).threw

\* for (i = 0; i < populationSize; i++) population.push(crossover(A, B))
RECURSIVE crossoverLoop(_, _, _, _, _, _)
crossoverLoop(pop, i, n, parentA, parentB, xo) ==
  IF i < n
  THEN crossoverLoop(Append(pop, crossover(parentA, parentB, xo[i + 1])),
                     i + 1, n, parentA, parentB, xo)
  ELSE pop

\* for (i = 0; i < populationSize; i++) population[i] = mutate(population[i])
RECURSIVE mutateLoop(_, _, _, _)
mutateLoop(pop, i, n, mu) ==
  IF i < n
  THEN mutateLoop([pop EXCEPT ![i + 1] = mutate(pop[i + 1], mu[i + 1])],
                  i + 1, n, mu)
  ELSE pop

\* What a call of the strategy comes to: it returns a model, or it throws and
\* the caller keeps the model it passed.
returned(newModel) == [threw |-> FALSE, model |-> newModel]

thrown(model) == [threw |-> TRUE, model |-> model]

\* A strategy that forgets to advance the generation counter.
produceNextGenerationNoCount(model, xo, mu, fit) ==
  LET newModel == structuredClone(model)
      sortedPopulation == sortedByFitness(newModel.population, fit)
      parentA == sortedPopulation[1]
      parentB == sortedPopulation[2]
      crossed == crossoverLoop(<<>>, 0, newModel.populationSize,
                               parentA, parentB, xo)
  IN IF sortThrows(newModel.population, fit) THEN thrown(model)
     ELSE returned([newModel EXCEPT
            !.population = mutateLoop(crossed, 0, newModel.populationSize,
                                      mu)])

\* A strategy that keeps the two parents next to their offspring.
produceNextGenerationKeepParents(model, xo, mu, fit) ==
  LET newModel == [structuredClone(model) EXCEPT !.generation = @ + 1]
      sortedPopulation == sortedByFitness(newModel.population, fit)
      parentA == sortedPopulation[1]
      parentB == sortedPopulation[2]
      crossed == crossoverLoop(<<parentA, parentB>>, 0,
                               newModel.populationSize, parentA, parentB, xo)
  IN IF sortThrows(newModel.population, fit) THEN thrown(model)
     ELSE returned([newModel EXCEPT !.population = crossed])

\* A strategy that takes its parents from the population as it stands,
\* unsorted.
produceNextGenerationUnsorted(model, xo, mu, fit) ==
  LET newModel == [structuredClone(model) EXCEPT !.generation = @ + 1]
      parentA == newModel.population[1]
      parentB == newModel.population[2]
      crossed == crossoverLoop(<<>>, 0, newModel.populationSize,
                               parentA, parentB, xo)
  IN IF sortThrows(newModel.population, fit) THEN thrown(model)
     ELSE returned([newModel EXCEPT
            !.population = mutateLoop(crossed, 0, newModel.populationSize,
                                      mu)])

\* A strategy whose mutation loop starts at the second offspring.
produceNextGenerationSkipFirst(model, xo, mu, fit) ==
  LET newModel == [structuredClone(model) EXCEPT !.generation = @ + 1]
      sortedPopulation == sortedByFitness(newModel.population, fit)
      parentA == sortedPopulation[1]
      parentB == sortedPopulation[2]
      crossed == crossoverLoop(<<>>, 0, newModel.populationSize,
                               parentA, parentB, xo)
  IN IF sortThrows(newModel.population, fit) THEN thrown(model)
     ELSE returned([newModel EXCEPT
            !.population = mutateLoop(crossed, 1, newModel.populationSize,
                                      mu)])

\* A strategy that recounts populationSize as the number of different
\* offspring.
produceNextGenerationRecount(model, xo, mu, fit) ==
  LET newModel == [structuredClone(model) EXCEPT !.generation = @ + 1]
      sortedPopulation == sortedByFitness(newModel.population, fit)
      parentA == sortedPopulation[1]
      parentB == sortedPopulation[2]
      crossed == crossoverLoop(<<>>, 0, newModel.populationSize,
                               parentA, parentB, xo)
      mutated == mutateLoop(crossed, 0, newModel.populationSize, mu)
  IN IF sortThrows(newModel.population, fit) THEN thrown(model)
     ELSE returned([newModel EXCEPT
            !.population = mutated,
            !.populationSize =
               Cardinality({mutated[i] : i \in 1..Len(mutated)})])

\* The default produceNextGeneration.  xo[i] and mu[i] are the outcomes of
\* the i-th crossover and the i-th mutate call, fit is the collaborator's
\* calculateFitness.
produceNextGeneration(model, xo, mu, fit) ==
  LET newModel == [structuredClone(model) EXCEPT !.generation = @ + 1]
  IN IF sortThrows(newModel.population, fit) THEN thrown(model)
     ELSE CHOOSE r \in
       {returned([newModel EXCEPT
          !.population = mutateLoop(crossed, 0, newModel.populationSize,
                                    mu)]) :
        crossed \in
          {LET parentA == sortedPopulation[1]
               parentB == sortedPopulation[2]
           IN crossoverLoop(<<>>, 0, newModel.populationSize,
                            parentA, parentB, xo) :
           sortedPopulation \in
             {sortedByFitness(newModel.population, fit)}}} : TRUE

\* ---- the default reproduction strategy, object by object -------------------
\* The same strategy on a heap, to follow which objects it reads and writes.
\* A heap is a sequence of objects and a reference is an index into it: a
\* model object holds the reference of its population array, an array object
\* the references of its organisms.

\* The heap that holds the model m and nothing else; m is at reference 1.
heapOf(m) ==
  <<[kind |-> "model", populationSize |-> m.populationSize,
     generation |-> m.generation, population |-> 2],
    [kind |-> "array",
     items |-> [i \in 1..Len(m.population) |-> 2 + i]]>>
  \o [i \in 1..Len(m.population) |->
        [kind |-> "organism", genes |-> m.population[i].genes,
         isInstance |-> m.population[i].isInstance]]

\* The model at reference a, read off the heap.
valueOf(h, a) ==
  LET items == h[h[a].population].items
  IN [populationSize |-> h[a].populationSize,
      generation     |-> h[a].generation,
      population     |-> [i \in 1..Len(items) |->
                            [genes |-> h[items[i]].genes,
                             isInstance |-> h[items[i]].isInstance]]]

\* The objects that can be reached from the model at reference a.
reachable(h, a) ==
  LET items == h[h[a].population].items
  IN {a, h[a].population} \cup {items[i] : i \in 1..Len(items)}

\* A copy of the model object alone, sharing the population array.
structuredCloneRefShallow(h, a) ==
  [heap |-> Append(h, h[a]), ref |-> Len(h) + 1]

\* structuredClone(model) on the heap: a new model object, a new array and a
\* new plain object for each organism of the array.
structuredCloneRef(h, a) ==
  LET base == Len(h)
      items == h[h[a].population].items
      n == Len(items)
  IN [heap |-> h \o <<[h[a] EXCEPT !.population = base + 2],
                      [kind |-> "array",
                       items |-> [i \in 1..n |-> base + 2 + i]]>>
                 \o [i \in 1..n |-> [h[items[i]] EXCEPT !.isInstance = FALSE]],
      ref |-> base + 1]

\* Array.prototype.sort on an array of references: the array is reordered in
\* place, by the fitness of the organisms its items refer to.
sortRefs(h, items, fit) ==
  LET tagged == [i \in 1..Len(items) |->
                   [genes |-> h[items[i]].genes,
                    isInstance |-> h[items[i]].isInstance, ref |-> items[i]]]
      sorted == sortedByFitness(tagged, fit)
  IN [i \in 1..Len(sorted) |-> sorted[i].ref]

\* crossover on the heap: the offspring is a new object.
crossoverRef(h, parentA, parentB, pick) ==
  LET offspring == crossover(h[parentA], h[parentB], pick)
  IN [heap |-> Append(h, [kind |-> "organism", genes |-> offspring.genes,
                          isInstance |-> offspring.isInstance]),
      ref |-> Len(h) + 1]

\* mutate on the heap: it changes the organism it is given and returns it
\* ("inplace"), or leaves it alone and returns a new one ("fresh").
mutateRef(h, r, d, kind) ==
  IF kind = "inplace"
  THEN [heap |-> [h EXCEPT ![r].genes = mutate(h[r], d).genes], ref |-> r]
  ELSE [heap |-> Append(h, [kind |-> "organism",
                            genes |-> mutate(h[r], d).genes,
                            isInstance |-> h[r].isInstance]),
        ref |-> Len(h) + 1]

\* The crossover loop on the heap; st.log grows by one entry per call.
RECURSIVE crossoverLoopRef(_, _, _, _, _, _, _)
crossoverLoopRef(st, i, n, newModel, parentA, parentB, xo) ==
  IF i < n
  THEN LET r == crossoverRef(st.heap, parentA, parentB, xo[i + 1])
           pop == r.heap[newModel].population
       IN crossoverLoopRef(
            [heap |-> [r.heap EXCEPT ![pop].items = Append(@, r.ref)],
             log  |-> Append(st.log, [fn |-> "crossover", at |-> i + 1,
                                      args |-> <<parentA, parentB>>,
                                      res |-> r.ref])],
            i + 1, n, newModel, parentA, parentB, xo)
  ELSE st

\* The mutation loop on the heap.
RECURSIVE mutateLoopRef(_, _, _, _, _, _)
mutateLoopRef(st, i, n, newModel, mu, kind) ==
  IF i < n
  THEN LET pop == st.heap[newModel].population
           arg == st.heap[pop].items[i + 1]
           r == mutateRef(st.heap, arg, mu[i + 1], kind)
       IN mutateLoopRef(
            [heap |-> [r.heap EXCEPT ![pop].items[i + 1] = r.ref],
             log  |-> Append(st.log, [fn |-> "mutate", at |-> i + 1,
                                      args |-> <<arg>>, res |-> r.ref])],
            i + 1, n, newModel, mu, kind)
  ELSE st

\* The default produceNextGeneration on the heap h, given the reference a of
\* its argument.  atCrossover is the heap as the first crossover call finds
\* it.  When the sort throws, the clone is left behind and nothing else is
\* done.
produceNextGenerationRef(h, a, xo, mu, kind, fit) ==
  LET c == structuredCloneRef(h, a)
      newModel == c.ref
      h1 == [c.heap EXCEPT ![newModel].generation = @ + 1]
      arr == h1[newModel].population
      h2 == [h1 EXCEPT ![arr].items = sortRefs(h1, @, fit)]
      parentA == h2[arr].items[1]
      parentB == h2[arr].items[2]
      h3 == [Append(h2, [kind |-> "array", items |-> <<>>])
               EXCEPT ![newModel].population = Len(h2) + 1]
      n == h3[newModel].populationSize
      crossed == crossoverLoopRef([heap |-> h3, log |-> <<>>], 0, n,
                                  newModel, parentA, parentB, xo)
      mutated == mutateLoopRef(crossed, 0, n, newModel, mu, kind)
  IN IF sortThrows(valueOf(h1, newModel).population, fit)
     THEN [threw |-> TRUE, heap |-> h1, ref |-> a, log |-> <<>>,
           atCrossover |-> h1, parents |-> <<>>]
     ELSE [threw |-> FALSE, heap |-> mutated.heap, ref |-> newModel,
           log |-> mutated.log, atCrossover |-> h3,
           parents |-> <<parentA, parentB>>]

\* ---- construction ----------------------------------------------------------

\* for (i = 0; i < populationSize; i++) population.push(createOrganism())
\* orgs[i] is what the i-th createOrganism call returns.
RECURSIVE createLoop(_, _, _, _)
createLoop(pop, i, n, orgs) ==
  IF i < n THEN createLoop(Append(pop, orgs[i + 1]), i + 1, n, orgs) ELSE pop

\* A loop that starts one organism too late.
createPopulationShort(populationSize, orgs) ==
  createLoop(<<>>, 1, populationSize, orgs)

createPopulation(populationSize, orgs) ==
  createLoop(<<>>, 0, populationSize, orgs)

\* A constructor that starts the loop itself.
constructorPlays(populationSize, orgs) ==
  [model     |-> [populationSize |-> populationSize,
                  generation     |-> 0,
                  population     |-> createPopulation(populationSize, orgs)],
   isRunning |-> TRUE,
   pending   |-> 1]

\* The engine right after new GeneticAlgorithm(...): nothing is queued.
constructor(populationSize, orgs) ==
  [model     |-> [populationSize |-> populationSize,
                  generation     |-> 0,
                  population     |-> createPopulation(populationSize, orgs)],
   isRunning |-> FALSE,
   pending   |-> 0]

\* ---- the step loop --------------------------------------------------------

\* A next() that queues two steps.
nextTwice(pending) == pending + 2

\* next(): requestAnimationFrame(() => this.step()) queues one more step.
next(pending) == pending + 1

\* A play() that queues nothing when the engine is already running.
playOnce(e) ==
  [isRunning |-> TRUE,
   pending   |-> IF e.isRunning THEN e.pending ELSE next(e.pending)]

\* A play() that queues a step and forgets the flag.
playNoFlag(e) == [isRunning |-> e.isRunning, pending |-> next(e.pending)]

\* A play() that sets the flag and queues nothing.
playNoQueue(e) == [isRunning |-> TRUE, pending |-> e.pending]

\* play(): e is the engine's run state [isRunning, pending].
play(e) == [isRunning |-> TRUE, pending |-> next(e.pending)]

\* A pause() that also drops the queued steps.
pauseCancels(e) == [isRunning |-> FALSE, pending |-> 0]

\* pause()
pause(e) == [isRunning |-> FALSE, pending |-> e.pending]

\* A callback of the tick (the one of stage st) that calls pause() on the
\* engine while it runs.  queuedAtPause: the steps that are queued when
\* pause() runs (the firing step has left the queue).
callsPause(s, st) ==
  LET e == pause([isRunning |-> s.isRunning, pending |-> s.pending])
  IN [s EXCEPT !.isRunning = e.isRunning, !.pending = e.pending,
               !.midPause = TRUE, !.pausedAt = st,
               !.queuedAtPause = s.pending]

\* A callback that throws: the rest of step() does not run.
throws(s) == [s EXCEPT !.done = TRUE, !.threw = TRUE]

\* What a tick starts from: the engine as the queue left it, nothing done yet.
enter(model, isRunning, pending) ==
  [model |-> model, isRunning |-> isRunning, pending |-> pending,
   done |-> FALSE, threw |-> FALSE, midPause |-> FALSE, pausedAt |-> "none",
   queuedAtPause |-> 0, sawTerminate |-> FALSE, produced |-> FALSE, stepped |-> FALSE,
   stepArg |-> <<>>]

\* A termination check that consults the predicate and ignores its answer.
terminateCheckIgnored(s, cb) ==
  IF cb.throwAt = "terminate" THEN throws(s)
  ELSE LET s1 == IF cb.pauseAt = "terminate" THEN callsPause(s, "terminate") ELSE s
       IN [s1 EXCEPT !.sawTerminate = cb.term]

\* A termination check that stops the engine only when no other step is
\* queued.
terminateCheckWhenIdle(s, cb) ==
  IF cb.throwAt = "terminate" THEN throws(s)
  ELSE LET s1 == IF cb.pauseAt = "terminate" THEN callsPause(s, "terminate") ELSE s
       IN [s1 EXCEPT !.sawTerminate = cb.term,
                     !.isRunning = IF cb.term /\ s.pending = 0 THEN FALSE
                                   ELSE @]

\* if (this.shouldTerminate(this.model)) this.isRunning = false;
terminateCheck(s, cb) ==
  IF cb.throwAt = "terminate" THEN throws(s)
  ELSE LET s1 == IF cb.pauseAt = "terminate" THEN callsPause(s, "terminate") ELSE s
       IN [s1 EXCEPT !.sawTerminate = cb.term,
                     !.isRunning = IF cb.term THEN FALSE ELSE @]

\* A step without the early return.
runningCheckMissing(s) == s

\* if (this.isRunning === false) return;
runningCheck(s) ==
  IF s.done THEN s
  ELSE IF s.isRunning = FALSE THEN [s EXCEPT !.done = TRUE]
  ELSE s

\* if (this.shouldProgressGeneration(this.model))
\*   this.model = this.produceNextGeneration(this.model);
progressGeneration(s, cb) ==
  IF s.done THEN s
  ELSE IF cb.throwAt = "progress" THEN throws(s)
  ELSE LET s1 == IF cb.pauseAt = "progress"
                 THEN callsPause(s, "progress") ELSE s
       IN IF ~cb.prog THEN s1
          ELSE IF cb.throwAt = "produce" THEN throws(s1)
          ELSE LET s2 == IF cb.pauseAt = "produce"
                          THEN callsPause(s1, "produce") ELSE s1
               IN CHOOSE t \in
                    {IF r.threw THEN throws(s2)
                     ELSE [s2 EXCEPT !.model = r.model, !.produced = TRUE] :
                       r \in {produceNextGeneration(s.model, cb.xo, cb.mu,
                                                    cb.fit)}} : TRUE

\* A last block without its isRunning test.
nextFrameUnchecked(s, cb) ==
  IF s.done THEN s
  ELSE IF cb.throwAt = "step"
       THEN [throws(s) EXCEPT !.stepped = TRUE, !.stepArg = s.model]
  ELSE LET s1 == IF cb.pauseAt = "step" THEN callsPause(s, "step") ELSE s
       IN [s1 EXCEPT !.stepped = TRUE, !.stepArg = s.model,
                     !.pending = next(@), !.done = TRUE]

\* A last block that forgets next().
nextFrameNoQueue(s, cb) ==
  IF s.done THEN s
  ELSE IF ~s.isRunning THEN [s EXCEPT !.done = TRUE]
  ELSE IF cb.throwAt = "step"
       THEN [throws(s) EXCEPT !.stepped = TRUE, !.stepArg = s.model]
  ELSE LET s1 == IF cb.pauseAt = "step" THEN callsPause(s, "step") ELSE s
       IN [s1 EXCEPT !.stepped = TRUE, !.stepArg = s.model, !.done = TRUE]

\* if (this.isRunning) { this.stepFunction(this.model); this.next(); }
nextFrame(s, cb) ==
  IF s.done THEN s
  ELSE IF ~s.isRunning THEN [s EXCEPT !.done = TRUE]
  ELSE IF cb.throwAt = "step"
       THEN [throws(s) EXCEPT !.stepped = TRUE, !.stepArg = s.model]
  ELSE LET s1 == IF cb.pauseAt = "step" THEN callsPause(s, "step") ELSE s
       IN [s1 EXCEPT !.stepped = TRUE, !.stepArg = s.model,
                     !.pending = next(@), !.done = TRUE]

\* A step that asks shouldTerminate only after the frame is done.
stepChecksLate(model, isRunning, pending, cb) ==
  terminateCheck(
    nextFrame(
      progressGeneration(runningCheck(enter(model, isRunning, pending)), cb),
      cb),
    cb)

\* A step that hands stepFunction the model it had before the generation
\* advanced.
stepHookFirst(model, isRunning, pending, cb) ==
  LET s == nextFrame(
             progressGeneration(
               runningCheck(
                 terminateCheck(enter(model, isRunning, pending), cb)),
               cb),
             cb)
  IN IF s.stepped THEN [s EXCEPT !.stepArg = model] ELSE s

\* step(): one tick, run to its end.  pending is the queue without the step
\* that is firing; cb holds what the callbacks do on this tick.  The four
\* statements run in the order of the code, each on the engine as the one
\* before it left it (s0 at entry, s4 at the end).
step(model, isRunning, pending, cb) ==
  CHOOSE s4 \in
    {nextFrame(s3, cb) : s3 \in
      {progressGeneration(s2, cb) : s2 \in
        {runningCheck(s1) : s1 \in
          {terminateCheck(s0, cb) : s0 \in
            {enter(model, isRunning, pending)}}}}} : TRUE

\* ---- what the callbacks may do on a tick -----------------------------------

\* The collaborator.  createOrganism numbers its organisms ("counter": the
\* genes of the i-th count on from i) or makes them all alike ("constant");
\* crossover returns structuredClone(parentA) ("copyA") or a new organism
\* with genes of both parents ("mix"); mutate returns its argument as it is
\* ("identity") or changes a gene of every other organism ("perturb");
\* calculateFitness reads the genes ("genes") or calls the organism's
\* getValue() ("getValue").
Configs ==
  [create : {"counter", "constant"}, crossover : {"copyA", "mix"},
   mutate : {"identity", "perturb"}, fitness : {"genes", "getValue"}]

\* What the n createOrganism calls of a construction return, in call order:
\* instances of the organism class.
CreateOf(c, n) ==
  [i \in 1..n |->
     [genes |-> [g \in 1..GeneCount |->
                   IF c.create = "counter"
                   THEN (i - 1 + g - 1) % (MaxGene + 1) ELSE 0],
      isInstance |-> TRUE]]

\* What the n crossover calls of one generation do, in call order.
XoOf(c, n) ==
  [i \in 1..n |->
     [how  |-> IF c.crossover = "mix" THEN "mix" ELSE "clone",
      from |-> [g \in 1..GeneCount |->
                  IF c.crossover = "mix" /\ (i + g) % 2 = 1 THEN "B"
                  ELSE "A"]]]

\* What the n mutate calls of one generation do, in call order.
MuOf(c, n) ==
  [i \in 1..n |->
     [g \in 1..GeneCount |->
        IF c.mutate = "perturb" /\ i % 2 = 1 /\ g = 1 THEN 1 ELSE 0]]

\* At most one callback of a tick misbehaves: it calls pause() or it throws.
Effects ==
  {[pauseAt |-> "none", throwAt |-> "none"]}
    \cup {[pauseAt |-> st, throwAt |-> "none"] : st \in Stages}
    \cup {[pauseAt |-> "none", throwAt |-> st] : st \in Stages}

\* The outcomes of the callbacks on one tick.
CallbackOutcomes(c, n) ==
  {[term |-> t, prog |-> p, xo |-> XoOf(c, n), mu |-> MuOf(c, n),
    fit |-> c.fitness, pauseAt |-> ef.pauseAt, throwAt |-> ef.throwAt]
     : t \in BOOLEAN, p \in BOOLEAN, ef \in Effects}

\* ---- the state machine ------------------------------------------------------

VARIABLES
  model,      \* this.model
  isRunning,  \* this.isRunning
  pending,    \* steps queued with requestAnimationFrame and not yet fired
  cfg,        \* the collaborator's crossover and mutate
  created,    \* what the createOrganism calls of the construction returned
  plays,      \* play() calls so far
  prodCalls,  \* produceNextGeneration calls that returned, so far
  ticked,     \* a step has fired
  paused,     \* pause() was called and play() has not been called since
  latched,    \* shouldTerminate answered true and play() was not called since
  stale,      \* steps still queued that were queued before the last pause()
  revived,    \* play() has been called after shouldTerminate stopped the engine
  failed,     \* a callback has thrown on some tick
  lab,        \* the experiment in hand: a call of produceNextGeneration on
              \* its own (input and outcome), or a run to generation N
  last        \* the last operation and what it did

vars == <<model, isRunning, pending, cfg, created, plays, prodCalls, ticked,
          paused, latched, stale, revived, failed, lab, last>>

\* The record of an operation that is not a tick.  repeat: the operation
\* before it was the same one.
Did(op, modelBefore, pendingBefore, modelAfter, pendingAfter, runBefore) ==
  [op |-> op, wasRunning |-> runBefore, term |-> FALSE, prog |-> FALSE,
   produced |-> FALSE, stepped |-> FALSE, threw |-> FALSE, midPause |-> FALSE,
   pausedAt |-> "none", stepArg |-> <<>>,
   queued |-> pendingAfter - pendingBefore,
   modelSame |-> modelAfter = modelBefore,
   repeat |-> last.op = op]

Init ==
  \E n \in PopSizes :
    \E c \in Configs :
      \E orgs \in {CreateOf(c, n)} :
        LET e == constructor(n, orgs)
        IN /\ model = e.model
           /\ isRunning = e.isRunning
           /\ pending = e.pending
           /\ cfg = c
           /\ created = orgs
           /\ plays = 0
           /\ prodCalls = 0
           /\ ticked = FALSE
           /\ paused = FALSE
           /\ latched = FALSE
           /\ stale = 0
           /\ revived = FALSE
           /\ failed = FALSE
           /\ lab = [phase |-> "none"]
           /\ last = [op |-> "new", wasRunning |-> FALSE, term |-> FALSE,
                      prog |-> FALSE, produced |-> FALSE, stepped |-> FALSE,
                      threw |-> FALSE, midPause |-> FALSE,
                      pausedAt |-> "none", stepArg |-> <<>>, queued |-> 0,
                      modelSame |-> TRUE, repeat |-> FALSE]

\* The caller calls play().
Play ==
  /\ plays < MaxPlays
  /\ LET e == play([isRunning |-> isRunning, pending |-> pending])
     IN /\ isRunning' = e.isRunning
        /\ pending' = e.pending
        /\ last' = Did("play", model, pending, model, e.pending, isRunning)
  /\ plays' = plays + 1
  /\ paused' = FALSE
  /\ latched' = FALSE
  /\ revived' = (revived \/ latched)
  /\ UNCHANGED <<model, cfg, created, prodCalls, ticked, stale, failed,
                 lab>>

\* The caller calls pause().
Pause ==
  /\ LET e == pause([isRunning |-> isRunning, pending |-> pending])
     IN /\ isRunning' = e.isRunning
        /\ pending' = e.pending
        /\ stale' = pending
        /\ last' = Did("pause", model, pending, model, e.pending, isRunning)
  /\ paused' = TRUE
  /\ UNCHANGED <<model, cfg, created, plays, prodCalls, ticked, latched,
                 revived, failed, lab>>

\* One queued step fires and its callbacks do what cb says.
Fire(cb) ==
  /\ pending > 0
  /\ \E s \in {step(model, isRunning, pending - 1, cb)} :
        /\ s.model.generation <= MaxGen
        /\ model' = s.model
        /\ isRunning' = s.isRunning
        /\ pending' = s.pending
        /\ prodCalls' = IF s.produced THEN prodCalls + 1 ELSE prodCalls
        /\ latched' = (latched \/ s.sawTerminate)
        /\ paused' = (paused \/ s.midPause)
        /\ failed' = (failed \/ s.threw)
        /\ stale' = IF s.midPause THEN s.queuedAtPause
                    ELSE IF stale > 0 THEN stale - 1 ELSE 0
        /\ last' = [op |-> "tick", wasRunning |-> isRunning,
                    term |-> s.sawTerminate, prog |-> cb.prog,
                    produced |-> s.produced, stepped |-> s.stepped,
                    threw |-> s.threw, midPause |-> s.midPause,
                    pausedAt |-> s.pausedAt, stepArg |-> s.stepArg,
                    queued |-> s.pending - (pending - 1),
                    modelSame |-> s.model = model,
                    repeat |-> last.op = "tick"]
  /\ ticked' = TRUE
  /\ UNCHANGED <<cfg, created, plays, revived, lab>>

\* The host fires one queued step.
Tick == \E cb \in CallbackOutcomes(cfg, model.populationSize) : Fire(cb)

Next == Play \/ Pause \/ Tick

Spec == Init /\ [][Next]_vars

\* reset(): the model goes back to its just-constructed form, with a fresh
\* population; isRunning and the queue are left alone.
reset(populationSize, orgs) ==
  [populationSize |-> populationSize,
   generation     |-> 0,
   population     |-> createPopulation(populationSize, orgs)]

\* The caller calls reset().  The fresh organisms need not be the first ones.
Reset ==
  /\ \E k \in {"counter", "constant"} :
       LET orgs == CreateOf([cfg EXCEPT !.create = k], model.populationSize)
           m == reset(model.populationSize, orgs)
       IN /\ model' = m
          /\ created' = orgs
          /\ last' = Did("reset", model, pending, m, pending, isRunning)
  /\ prodCalls' = 0
  /\ UNCHANGED <<isRunning, pending, cfg, plays, ticked, paused, latched,
                 stale, revived, failed, lab>>

NextReset == Next \/ Reset

SpecReset == Init /\ [][NextReset]_vars

\* ---- a run to generation N ---------------------------------------------------

\* The generations a run is asked to stop at.
Limits == 0..(MaxGen - 1)

\* The collaborator's shouldTerminate of such a run.
shouldTerminate(m, N) == m.generation >= N

\* The collaborators of such a run: calculateFitness works on the plain
\* objects the strategy hands it.
RunConfigs == {c \in Configs : c.fitness = "genes"}

\* What its callbacks do on a tick: shouldProgressGeneration answers true,
\* and no callback calls pause() or throws.
RunOutcomes(c, m, N) ==
  {[term |-> shouldTerminate(m, N), prog |-> TRUE,
    xo |-> XoOf(c, m.populationSize), mu |-> MuOf(c, m.populationSize),
    fit |-> c.fitness, pauseAt |-> "none", throwAt |-> "none"]}

\* A freshly constructed engine and the generation N to stop at.
InitRun ==
  \E n \in PopSizes :
    \E c \in RunConfigs :
      \E N \in Limits :
        LET orgs == CreateOf(c, n)
            e == constructor(n, orgs)
        IN /\ model = e.model
           /\ isRunning = e.isRunning
           /\ pending = e.pending
           /\ cfg = c
           /\ created = orgs
           /\ plays = 0
           /\ prodCalls = 0
           /\ ticked = FALSE
           /\ paused = FALSE
           /\ latched = FALSE
           /\ stale = 0
           /\ revived = FALSE
           /\ failed = FALSE
           /\ lab = [phase |-> "run", N |-> N]
           /\ last = [op |-> "new", wasRunning |-> FALSE, term |-> FALSE,
                      prog |-> FALSE, produced |-> FALSE, stepped |-> FALSE,
                      threw |-> FALSE, midPause |-> FALSE,
                      pausedAt |-> "none", stepArg |-> <<>>, queued |-> 0,
                      modelSame |-> TRUE, repeat |-> FALSE]

\* The caller calls play(), as long as shouldTerminate has not stopped the
\* engine.
PlayRun == ~latched /\ Play

\* The host fires one queued step of the run.
TickRun == \E cb \in RunOutcomes(cfg, model, lab.N) : Fire(cb)

NextRun == PlayRun \/ TickRun

\* requestAnimationFrame fires every callback it was given: a queued step
\* does not wait for ever.
SpecRun == InitRun /\ [][NextRun]_vars /\ WF_vars(TickRun)

\* ---- produceNextGeneration on its own --------------------------------------

\* The genes of the organisms the strategy is given: one gene, the first or
\* the last, has any value and the others are 0.
InputGenes ==
  {[g \in 1..GeneCount |-> IF g = k THEN v ELSE 0] :
     k \in {1, GeneCount}, v \in GeneValues}

\* The models the strategy is given: a population of populationSize such
\* organisms, instances of the organism class at generation 0 (as
\* createOrganism made them) or plain objects at a later generation (as a
\* cloning crossover made them).
InputModels ==
  UNION {[populationSize : {n}, generation : {gen},
          population : [1..n -> [genes : InputGenes,
                                 isInstance : {gen = 0}]]] :
           n \in PopSizes, gen \in {0, MaxGen}}

\* What a crossover call may do: clone parentA, or make a new organism with
\* all its genes from one parent or with every other gene from the other.
Picks ==
  {[how |-> "clone", from |-> [g \in 1..GeneCount |-> "A"]]}
    \cup {[how |-> "mix",
           from |-> [g \in 1..GeneCount |->
                       IF alt /\ g % 2 = 0
                       THEN (IF first = "A" THEN "B" ELSE "A") ELSE first]] :
            first \in {"A", "B"}, alt \in BOOLEAN}

\* The other way round: the genes of a mixing pick from the other parent,
\* and for a clone a new organism with the genes of parentB.
flip(pick) ==
  [how |-> "mix",
   from |-> [g \in 1..GeneCount |->
               IF pick.from[g] = "A" THEN "B" ELSE "A"]]

\* What the n crossover calls of a generation may do: all the same, or every
\* other one the other way round.
Xos(n) ==
  UNION {{[i \in 1..n |-> IF i % 2 = 1 THEN p ELSE q] : q \in {p, flip(p)}} :
           p \in Picks}

\* What the n mutate calls of a generation may do, and how: nothing, or the
\* first gene of every other organism changed, in place or in a new object
\* that mutate returns.
Mus(n) ==
  {[mu |-> [i \in 1..n |-> [g \in 1..GeneCount |-> 0]], kind |-> "inplace"]}
    \cup {[mu |-> [i \in 1..n |-> [g \in 1..GeneCount |->
                                     IF i % 2 = 1 /\ g = 1 THEN 1 ELSE 0]],
           kind |-> k] : k \in {"inplace", "fresh"}}

\* The collaborators of a call: a calculateFitness that reads the genes with
\* any of the crossovers and mutates above, and the one that calls getValue()
\* with a cloning crossover and a mutate that changes nothing.
Collaborators(n) ==
  {[xo |-> xo, mu |-> m.mu, kind |-> m.kind, fit |-> "genes"] :
     xo \in Xos(n), m \in Mus(n)}
    \cup {[xo |-> [i \in 1..n |->
                     [how |-> "clone", from |-> [g \in 1..GeneCount |-> "A"]]],
           mu |-> [i \in 1..n |-> [g \in 1..GeneCount |-> 0]],
           kind |-> "inplace", fit |-> "getValue"]}

\* An engine that holds one of the input models and has not been started.
InitProduce ==
  \E m \in InputModels :
    /\ model = m
    /\ isRunning = FALSE
    /\ pending = 0
    /\ cfg = [create |-> "counter", crossover |-> "mix", mutate |-> "perturb",
              fitness |-> "genes"]
    /\ created = m.population
    /\ plays = 0
    /\ prodCalls = 0
    /\ ticked = FALSE
    /\ paused = FALSE
    /\ latched = FALSE
    /\ stale = 0
    /\ revived = FALSE
    /\ failed = FALSE
    /\ lab = [phase |-> "input"]
    /\ last = [op |-> "new", wasRunning |-> FALSE, term |-> FALSE,
               prog |-> FALSE, produced |-> FALSE, stepped |-> FALSE,
               threw |-> FALSE, midPause |-> FALSE,
               pausedAt |-> "none", stepArg |-> <<>>, queued |-> 0,
               modelSame |-> TRUE, repeat |-> FALSE]

\* One call of the default produceNextGeneration on the model, with one of
\* the collaborators; the engine takes the result when the call returns.
Produce ==
  /\ lab.phase = "input"
  /\ \E co \in Collaborators(model.populationSize) :
       \E out \in {produceNextGeneration(model, co.xo, co.mu, co.fit)} :
         \E r \in {produceNextGenerationRef(heapOf(model), 1, co.xo, co.mu,
                                            co.kind, co.fit)} :
           /\ model' = out.model
           /\ lab' = [phase |-> IF out.threw THEN "thrown" ELSE "output",
                      input |-> model, xo |-> co.xo, mu |-> co.mu,
                      kind |-> co.kind, fit |-> co.fit,
                      before |-> heapOf(model), inRef |-> 1,
                      after |-> r.heap, outRef |-> r.ref,
                      refThrew |-> r.threw,
                      atCrossover |-> r.atCrossover,
                      parents |-> r.parents, log |-> r.log]
           /\ last' = [Did("produce", model, pending, out.model, pending,
                           isRunning) EXCEPT !.threw = out.threw]
           /\ prodCalls' = IF out.threw THEN prodCalls ELSE prodCalls + 1
           /\ failed' = (failed \/ out.threw)
  /\ UNCHANGED <<isRunning, pending, cfg, created, plays, ticked, paused,
                 latched, stale, revived>>

NextProduce == Produce

SpecProduce == InitProduce /\ [][NextProduce]_vars

\* The heap run and the run on values give the same model.
HeapAgrees ==
  lab.phase \in {"output", "thrown"}
    => /\ valueOf(lab.after, lab.outRef) = model
       /\ valueOf(lab.before, lab.inRef) = lab.input
       /\ lab.refThrew = (lab.phase = "thrown")

\* ---- claims ------------------------------------------------------------------

\* C1: at most one scheduled step is pending in every state reachable by
\* play(), pause() and ticks.  (Stated as claimed; play() called twice in a
\* row queues two steps.)
C1_SingleStepInFlight == pending <= 1

\* C2: in every reachable state the population has populationSize members:
\* after construction, after every generation advance of the default
\* strategy, whenever stepFunction has just been invoked and whenever the
\* engine is not running.
C2_PopulationSize == Len(model.population) = model.populationSize

C2_Witness ==
  /\ last.op = "tick" /\ last.produced /\ last.stepped
  /\ model.generation = MaxGen
  /\ Len(model.population) = MaxPop

\* C3: a tick never decreases generation; it adds exactly 1 when the
\* reproduction strategy ran on it, which happens only on a tick that found
\* the engine running, not terminating and shouldProgressGeneration true, and
\* adds 0 otherwise; generation equals the number of strategy runs so far.
C3_GenerationMonotonic ==
  [][/\ model'.generation >= model.generation
     /\ last'.op = "tick" /\ last'.produced
          => /\ model'.generation = model.generation + 1
             /\ last'.wasRunning /\ ~last'.term /\ last'.prog
     /\ ~(last'.op = "tick" /\ last'.produced)
          => model'.generation = model.generation
     /\ model'.generation = prodCalls']_vars

C3_Witness ==
  /\ model.generation = MaxGen /\ prodCalls = MaxGen
  /\ last.op = "tick" /\ ~last.produced /\ last.stepped

\* C4: once shouldTerminate has answered true on a tick, isRunning is false
\* when that tick ends and in every later state, whatever ticks fire, until
\* play() is called.
C4_TerminationLatch == latched => ~isRunning

C4_Witness ==
  /\ latched /\ last.op = "tick" /\ ~last.term /\ last.prog /\ last.repeat
  /\ ~isRunning /\ plays = MaxPlays

\* C5: a tick that fires after pause(), with no play() since, leaves the model
\* unchanged, runs neither produceNextGeneration nor stepFunction and queues
\* no step; and as long as no tick has fired after construction, a paused
\* engine still has generation 0 and the population as constructed.
C5_IdleNoOp ==
  /\ [][paused /\ last'.op = "tick"
          => /\ model' = model
             /\ ~last'.produced /\ ~last'.stepped
             /\ pending' = pending - 1]_vars
  /\ [](paused /\ ~ticked
          => model.generation = 0 /\ model.population = created)

C5_Witness ==
  /\ paused /\ last.op = "tick" /\ last.repeat /\ last.prog /\ ~last.term
  /\ ~last.wasRunning /\ ~last.midPause /\ model.generation > 0

\* C6 as claimed: pause() leaves the queued steps queued, and a step that was
\* queued when pause() was called finds isRunning false when it fires and does
\* nothing, whatever control calls come in between.
C6_Original ==
  [][/\ last'.op = "pause" => pending' = pending
     /\ stale > 0 /\ last'.op = "tick"
          => /\ ~last'.wasRunning
             /\ model' = model /\ ~last'.stepped /\ last'.queued = 0]_vars

\* C6 as amended: pause() leaves the queued steps queued, and a step that was
\* queued when pause() was called finds isRunning false when it fires and does
\* nothing, provided play() was not called in between.
C6_PendingStepAfterPause ==
  [][/\ last'.op = "pause" => pending' = pending
     /\ stale > 0 /\ paused /\ last'.op = "tick"
          => /\ ~last'.wasRunning /\ ~isRunning'
             /\ model' = model /\ ~last'.stepped /\ last'.queued = 0]_vars

C6_Witness ==
  /\ last.op = "tick" /\ paused /\ ~last.wasRunning /\ ~last.midPause
  /\ stale > 0 /\ pending = stale

\* C7: reset() from any state gives generation 0 and a freshly created
\* population of populationSize organisms, and leaves isRunning (and the
\* queue) as they were; so does a second reset() right after the first.
C7_Reset ==
  last.op = "reset"
    => /\ model.generation = 0
       /\ Len(model.population) = model.populationSize
       /\ model.population = created
       /\ isRunning = last.wasRunning
       /\ last.queued = 0

C7_Witness ==
  /\ last.op = "reset" /\ last.repeat /\ isRunning /\ pending > 0
  /\ ~last.modelSame

\* C8: until the first play(), the engine is as constructed: generation 0,
\* the population is what the populationSize createOrganism calls returned,
\* in call order, isRunning is false, no step is queued and none has fired.
C8_Construction ==
  plays = 0
    => /\ model.generation = 0
       /\ Len(created) = model.populationSize
       /\ model.population = created
       /\ ~isRunning
       /\ pending = 0
       /\ ~ticked

C8_Witness == plays = 0 /\ last.op = "pause" /\ Len(created) = MaxPop

\* C9: play(), from any state, sets isRunning, queues exactly one step and
\* leaves the model alone.
C9_Play ==
  [][last'.op = "play"
       => /\ isRunning'
          /\ pending' = pending + 1
          /\ model' = model]_vars

C9_Witness ==
  /\ last.op = "play" /\ last.wasRunning
  /\ pending > 1 /\ model.generation > 0

\* C10: a tick on which shouldTerminate answers true leaves the model as it
\* is, runs neither the strategy nor stepFunction and queues no step, also
\* when the engine was running and shouldProgressGeneration would say yes.
C10_TerminatingTick ==
  [][last'.op = "tick" /\ last'.term
       => /\ model' = model
          /\ ~last'.produced /\ ~last'.stepped
          /\ pending' = pending - 1
          /\ ~isRunning']_vars

C10_Witness ==
  /\ last.op = "tick" /\ last.term /\ last.wasRunning /\ last.prog
  /\ ~last.midPause /\ ~last.threw

\* C11: after shouldTerminate has stopped the engine, play() makes it run
\* again with one more step queued; on a tick of the restarted engine, if
\* shouldTerminate is true the engine goes back to idle and the model stays as
\* it is, and if it is false (and the callbacks return and leave the engine
\* alone) the loop goes on: stepFunction runs, the next step is queued and the
\* generation advances when shouldProgressGeneration says so.
C11_NoHardTerminalState ==
  [][/\ latched /\ last'.op = "play"
          => isRunning' /\ pending' = pending + 1 /\ model' = model
     /\ revived /\ isRunning /\ last'.op = "tick" /\ last'.term
          => ~isRunning' /\ model' = model /\ last'.queued = 0
     /\ revived /\ isRunning /\ last'.op = "tick" /\ ~last'.term
          /\ ~last'.threw /\ ~last'.midPause
          => /\ isRunning' /\ last'.stepped /\ last'.queued = 1
             /\ last'.prog
                  => model'.generation = model.generation + 1]_vars

C11_Witness ==
  /\ revived /\ last.op = "tick" /\ last.produced /\ last.stepped
  /\ isRunning /\ pending > 0 /\ ~last.midPause

\* C14 as claimed: on a tick that got past the running check, a pause() made
\* by shouldProgressGeneration, produceNextGeneration or stepFunction does not
\* stop this tick: stepFunction is still invoked and the next step is queued.
C14_Original ==
  [][last'.op = "tick" /\ ~last'.threw
       /\ last'.pausedAt \in {"progress", "produce", "step"}
       => last'.stepped /\ last'.queued = 1]_vars

\* C14 as amended: a pause() made by shouldProgressGeneration or by
\* produceNextGeneration stops the tick it is made on (the generation still
\* advances when asked, but stepFunction is not invoked and no step is
\* queued); only a pause() made by stepFunction waits for the next tick: the
\* step it is made on still queues the next one.
C14_PauseInsideTick ==
  [][last'.op = "tick" /\ ~last'.threw
       => /\ last'.pausedAt \in {"progress", "produce"}
               => /\ ~last'.stepped /\ last'.queued = 0 /\ ~isRunning'
                  /\ last'.produced = last'.prog
          /\ last'.pausedAt = "step"
               => last'.stepped /\ last'.queued = 1 /\ ~isRunning']_vars

C14_Witness ==
  /\ last.op = "tick" /\ last.pausedAt = "produce" /\ last.produced
  /\ ~last.stepped /\ pending = 0 /\ ~isRunning

\* C15: on a tick that advances the generation and invokes stepFunction,
\* stepFunction gets the model produceNextGeneration returned on that tick,
\* with the generation already incremented, not the model the tick began with.
C15_HookSeesNewGeneration ==
  [][last'.op = "tick" /\ last'.produced /\ last'.stepped
       => /\ last'.stepArg = model'
          /\ last'.stepArg.generation = model.generation + 1
          /\ last'.stepArg # model]_vars

C15_Witness ==
  /\ last.op = "tick" /\ last.produced /\ last.stepped
  /\ last.stepArg.generation = MaxGen /\ last.stepArg.population # created

\* C16 as claimed: a tick that finds isRunning true and shouldTerminate false,
\* with no callback failing, invokes stepFunction and queues exactly one step;
\* a tick that queues none left through the isRunning-false return.
C16_Original ==
  [][last'.op = "tick"
       => /\ last'.wasRunning /\ ~last'.term /\ ~last'.threw
               => last'.stepped /\ last'.queued = 1
          /\ last'.queued = 0 /\ ~last'.threw
               => ~last'.produced /\ ~last'.stepped /\ model' = model]_vars

\* C16 as amended: a tick that finds isRunning true and shouldTerminate false,
\* with no callback failing and none calling pause() before stepFunction is
\* reached, invokes stepFunction once and queues exactly one step; a tick
\* whose callbacks all return queues no step only when isRunning is false at
\* one of the two tests of step().
C16_RunningTick ==
  [][last'.op = "tick"
       => /\ last'.wasRunning /\ ~last'.term /\ ~last'.threw
             /\ last'.pausedAt \in {"none", "step"}
               => /\ last'.stepped /\ last'.queued = 1
                  /\ last'.stepArg = model'
          /\ last'.queued \in {0, 1}
          /\ last'.queued = 0 /\ ~last'.threw
               => ~isRunning' /\ ~last'.stepped]_vars

C16_Witness ==
  /\ last.op = "tick" /\ last.wasRunning /\ ~last.term /\ last.stepped
  /\ last.queued = 1 /\ last.repeat /\ ~last.prog /\ model.generation > 0

\* C19: when a callback throws on a tick, the tick queues no step, the model
\* is not rolled back (a model produceNextGeneration has replaced stays), and
\* no step fires any more until play() is called: none is left in the queue.
C19_CallbackFailure ==
  [][last'.op = "tick" /\ last'.threw
       => /\ last'.queued = 0
          /\ last'.produced
               => model' # model /\ model'.generation = model.generation + 1
          /\ pending' = 0]_vars

\* C20: populationSize keeps the value the constructor was given (one
\* createOrganism call was made per member) in every state reached by play(),
\* pause() and ticks.
C20_PopulationSizeFixed == model.populationSize = Len(created)

C20_Witness ==
  /\ last.op = "tick" /\ last.produced /\ model.generation = MaxGen
  /\ model.populationSize = MaxPop /\ plays = MaxPlays

\* The highest fitness in a population, and the places of an organism of
\* highest fitness and of one of highest fitness among the others.
fitnessOf(o) == calculateFitness(o, lab.fit).value

TopFitness(pop) ==
  CHOOSE f \in {fitnessOf(pop[i]) : i \in 1..Len(pop)} :
    \A j \in 1..Len(pop) : fitnessOf(pop[j]) <= f

\* The first organism of highest fitness.
BestAt(pop) ==
  CHOOSE i \in 1..Len(pop) :
    /\ fitnessOf(pop[i]) = TopFitness(pop)
    /\ \A j \in 1..(i - 1) : fitnessOf(pop[j]) < TopFitness(pop)

\* The first organism of highest fitness among the others.
SecondAt(pop) ==
  CHOOSE i \in 1..Len(pop) \ {BestAt(pop)} :
    \A j \in 1..Len(pop) \ {BestAt(pop)} :
      \/ fitnessOf(pop[j]) < fitnessOf(pop[i])
      \/ fitnessOf(pop[j]) = fitnessOf(pop[i]) /\ i <= j

\* The genes that are v at gene k and 0 elsewhere.
OneGene(k, v) == [g \in 1..GeneCount |-> IF g = k THEN v ELSE 0]

\* C12: one call of the default strategy with a crossover that copies parentA
\* and a mutate that changes nothing gives the input generation plus one (1
\* from 0) and populationSize offspring, each a copy of an organism of highest
\* fitness of the input population; and whatever crossover and mutate do,
\* parentA is an organism of highest fitness.
C12_BestParentScenario ==
  lab.phase = "output"
    => /\ (\A i \in 1..lab.input.populationSize :
             /\ lab.xo[i].how = "clone"
             /\ \A g \in 1..GeneCount : lab.mu[i][g] = 0)
          => /\ model.generation = lab.input.generation + 1
             /\ Len(model.population) = lab.input.populationSize
             /\ \A i \in 1..Len(model.population) :
                  /\ fitnessOf(model.population[i])
                       = TopFitness(lab.input.population)
                  /\ model.population[i].genes
                       = lab.input.population[BestAt(lab.input.population)]
                           .genes
       /\ fitnessOf(lab.atCrossover[lab.parents[1]])
            = TopFitness(lab.input.population)

C12_Witness ==
  /\ lab.phase = "output"
  /\ lab.input.populationSize = MaxPop /\ lab.input.generation = 0
  /\ \A i \in 1..MaxPop :
       /\ lab.input.population[i].genes = OneGene(1, i - 1)
       /\ lab.xo[i].how = "clone"
       /\ \A g \in 1..GeneCount : lab.mu[i][g] = 0
       /\ model.population[i].genes = OneGene(1, MaxPop - 1)
  /\ model.generation = 1

\* C17: the default strategy calls crossover populationSize times, each time
\* with the same two parents, the two organisms of highest fitness of the
\* input population, and then calls mutate once on each offspring, first to
\* last, and puts what mutate returns in the offspring's place.
C17_CrossoverAndMutateCalls ==
  lab.phase = "output"
    => LET pop == lab.input.population
           n == lab.input.populationSize
           A == pop[BestAt(pop)]
           B == pop[SecondAt(pop)]
           items == lab.after[lab.after[lab.outRef].population].items
       IN /\ Len(model.population) = n
          /\ \A i \in 1..n :
               model.population[i]
                 = mutate(crossover(A, B, lab.xo[i]), lab.mu[i])
          /\ lab.parents[1] # lab.parents[2]
          /\ lab.atCrossover[lab.parents[1]].genes = A.genes
          /\ lab.atCrossover[lab.parents[2]].genes = B.genes
          /\ Len(lab.log) = n + n
          /\ Len(items) = n
          /\ \A i \in 1..n :
               /\ lab.log[i].fn = "crossover" /\ lab.log[i].at = i
               /\ lab.log[i].args = lab.parents
               /\ lab.log[n + i].fn = "mutate" /\ lab.log[n + i].at = i
               /\ lab.log[n + i].args = <<lab.log[i].res>>
               /\ items[i] = lab.log[n + i].res

C17_Witness ==
  /\ lab.phase = "output" /\ lab.kind = "fresh"
  /\ lab.input.populationSize = MaxPop
  /\ lab.xo[1].how = "mix" /\ lab.xo[1].from[1] = "A"
  /\ lab.xo[2] # lab.xo[1]
  /\ lab.mu[1][1] = 1 /\ lab.mu[2][1] = 0
  /\ lab.input.population[1].genes = OneGene(GeneCount, 1)
  /\ lab.input.population[2].genes = OneGene(1, MaxGene)
  /\ lab.input.population[MaxPop].genes = OneGene(GeneCount, MaxGene)
  /\ \A j \in 1..MaxPop :
       model.population[2].genes # lab.input.population[j].genes

\* C18: the default strategy leaves the model it is given as it was: no
\* object of the heap it was given is changed (generation, populationSize,
\* the population array and its organisms, in their order), and when
\* crossover is first called the new model, with the two parents, shares no
\* object with the old one.
C18_InputUntouched ==
  lab.phase = "output"
    => /\ \A r \in 1..Len(lab.before) : lab.after[r] = lab.before[r]
       /\ valueOf(lab.after, lab.inRef) = lab.input
       /\ (reachable(lab.atCrossover, lab.outRef)
             \cup {lab.parents[1], lab.parents[2]})
            \cap reachable(lab.atCrossover, lab.inRef) = {}

C18_Witness ==
  /\ lab.phase = "output" /\ lab.kind = "inplace"
  /\ lab.input.populationSize = MaxPop
  /\ lab.input.population[1].genes = OneGene(1, 0)
  /\ lab.input.population[MaxPop].genes = OneGene(1, MaxGene)
  /\ lab.mu[1][1] = 1 /\ lab.xo[1].how = "clone"
  /\ model.population[1].genes = OneGene(1, 0)

\* C21: as long as no callback has thrown, between ticks an engine whose
\* isRunning is true has at least one step queued; a state with no step
\* queued has isRunning false.
C21_RunningHasPendingStep == ~failed => (pending = 0 => ~isRunning)

C21_Witness ==
  /\ ~failed /\ last.op = "tick" /\ last.stepped /\ last.produced
  /\ isRunning /\ pending = 1 /\ model.generation = MaxGen

\* C22: a tick never leaves more steps queued than it found (it takes one off
\* the queue and puts at most one on); the queue grows only by play(), one
\* step per call; so the number of queued steps is never more than the
\* number of play() calls made so far.
C22_PendingBoundedByPlays ==
  /\ pending <= plays
  /\ [][/\ last'.op = "tick"
             => pending' <= pending /\ last'.queued \in {0, 1}
        /\ pending' > pending
             => last'.op = "play" /\ pending' = pending + 1
                  /\ plays' = plays + 1
        /\ pending' <= plays']_vars

C22_Witness ==
  /\ last.op = "tick" /\ last.stepped /\ last.queued = 1
  /\ plays = MaxPlays /\ pending = plays

\* C23: in a run where shouldProgressGeneration is always true and
\* shouldTerminate is true exactly from generation N on, once play() has been
\* called and queued steps keep firing, the engine comes to rest with
\* isRunning false, no step queued and generation exactly N; generation is
\* never more than N, however many times play() was called before the engine
\* stopped.
C23_RunStopsAtN ==
  /\ [](model.generation <= lab.N)
  /\ (plays > 0) ~> (/\ ~isRunning /\ pending = 0
                     /\ model.generation = lab.N)

C23_Witness ==
  /\ lab.phase = "run" /\ lab.N = MaxGen - 1
  /\ plays = MaxPlays /\ last.op = "tick" /\ last.repeat
  /\ ~isRunning /\ pending = 0
  /\ model.generation = lab.N /\ prodCalls = lab.N

====
